---- MODULE Spec2Model ----
(***************************************************************************)
(* PyChain ledger (pychain.py): Record, Block with its SHA-256 hash,       *)
(* PyChain with proof_of_work, add_block and is_valid, and the handlers    *)
(* of the Streamlit script that drive them.                                *)
(*                                                                         *)
(* Python strings are sequences of one-character strings; a digest is the *)
(* 64-character lowercase hex string hashlib returns.                      *)
(***************************************************************************)
EXTENDS Integers, Sequences, FiniteSets, TLC

(***************************************************************************)
(* Bounds of the exploration                                               *)
(***************************************************************************)
\* longest chain explored (genesis included)
MaxChain == 3
\* largest nonce the search loop is followed to
MaxNonce == 5
\* the clock runs over 0..MaxClock seconds after midnight UTC
MaxClock == 1

(***************************************************************************)
(* Text                                                                    *)
(***************************************************************************)
\* Python str values
Str == Seq(STRING)

\* printable ASCII in code order, AsciiChars[1] is chr(32); chr(96), which a
\* TLA+ string cannot hold, is spelled "grave"
AsciiChars ==
    <<" ", "!", "\"", "#", "$", "%", "&", "'", "(", ")", "*", "+", ",", "-", ".", "/",
       "0", "1", "2", "3", "4", "5", "6", "7", "8", "9", ":", ";", "<", "=", ">", "?",
       "@", "A", "B", "C", "D", "E", "F", "G", "H", "I", "J", "K", "L", "M", "N", "O",
       "P", "Q", "R", "S", "T", "U", "V", "W", "X", "Y", "Z", "[", "\\", "]", "^", "_",
       "grave", "a", "b", "c", "d", "e", "f", "g", "h", "i", "j", "k", "l", "m", "n", "o",
       "p", "q", "r", "s", "t", "u", "v", "w", "x", "y", "z", "{", "|", "}", "~" >>

\* str.encode() of one character
Ord(c) == 31 + (CHOOSE i \in 1..Len(AsciiChars) : AsciiChars[i] = c)

Encode[s \in Str] == [ i \in 1..Len(s) |-> Ord(s[i]) ]

Digits == << "0", "1", "2", "3", "4", "5", "6", "7", "8", "9" >>

\* str(n) of a non-negative int
RECURSIVE IntStr(_)
IntStr(n) == IF n < 10 THEN << Digits[n + 1] >> ELSE Append(IntStr(n \div 10), Digits[(n % 10) + 1])

\* str.startswith
StartsWith[s \in Str, prefix \in Str] ==
    /\ Len(prefix) <= Len(s)
    /\ \A i \in 1..Len(prefix) : s[i] = prefix[i]

\* Repeat giving one character less
Repeat_Short(c, n) == [ i \in 1..(n - 1) |-> c ]

\* c * n for a one-character str c
Repeat(c, n) == [ i \in 1..n |-> c ]

(***************************************************************************)
(* hashlib.sha256: FIPS 180-4 SHA-256 over a byte sequence.  A 32-bit word *)
(* is a pair << high 16 bits, low 16 bits >>.  The operations are         *)
(* functions, so that each argument is evaluated once.                     *)
(***************************************************************************)
\* exclusive-or of two 4-bit values, entry a * 16 + b + 1
XorTab ==
    <<0, 1, 2, 3, 4, 5, 6, 7, 8, 9, 10, 11, 12, 13, 14, 15,
       1, 0, 3, 2, 5, 4, 7, 6, 9, 8, 11, 10, 13, 12, 15, 14,
       2, 3, 0, 1, 6, 7, 4, 5, 10, 11, 8, 9, 14, 15, 12, 13,
       3, 2, 1, 0, 7, 6, 5, 4, 11, 10, 9, 8, 15, 14, 13, 12,
       4, 5, 6, 7, 0, 1, 2, 3, 12, 13, 14, 15, 8, 9, 10, 11,
       5, 4, 7, 6, 1, 0, 3, 2, 13, 12, 15, 14, 9, 8, 11, 10,
       6, 7, 4, 5, 2, 3, 0, 1, 14, 15, 12, 13, 10, 11, 8, 9,
       7, 6, 5, 4, 3, 2, 1, 0, 15, 14, 13, 12, 11, 10, 9, 8,
       8, 9, 10, 11, 12, 13, 14, 15, 0, 1, 2, 3, 4, 5, 6, 7,
       9, 8, 11, 10, 13, 12, 15, 14, 1, 0, 3, 2, 5, 4, 7, 6,
       10, 11, 8, 9, 14, 15, 12, 13, 2, 3, 0, 1, 6, 7, 4, 5,
       11, 10, 9, 8, 15, 14, 13, 12, 3, 2, 1, 0, 7, 6, 5, 4,
       12, 13, 14, 15, 8, 9, 10, 11, 4, 5, 6, 7, 0, 1, 2, 3,
       13, 12, 15, 14, 9, 8, 11, 10, 5, 4, 7, 6, 1, 0, 3, 2,
       14, 15, 12, 13, 10, 11, 8, 9, 6, 7, 4, 5, 2, 3, 0, 1,
       15, 14, 13, 12, 11, 10, 9, 8, 7, 6, 5, 4, 3, 2, 1, 0 >>

UInt16 == 0..65535
Word == UInt16 \X UInt16

Xor16[a \in UInt16, b \in UInt16] ==
    XorTab[(a \div 4096) * 16 + (b \div 4096) + 1] * 4096
  + XorTab[((a \div 256) % 16) * 16 + ((b \div 256) % 16) + 1] * 256
  + XorTab[((a \div 16) % 16) * 16 + ((b \div 16) % 16) + 1] * 16
  + XorTab[(a % 16) * 16 + (b % 16) + 1]

And16[a \in UInt16, b \in UInt16] == (a + b - Xor16[a, b]) \div 2

WXor[x \in Word, y \in Word] == << Xor16[x[1], y[1]], Xor16[x[2], y[2]] >>
WAnd[x \in Word, y \in Word] == << And16[x[1], y[1]], And16[x[2], y[2]] >>

\* addition modulo 2^32
WAdd[x \in Word, y \in Word] ==
    << (x[1] + y[1] + ((x[2] + y[2]) \div 65536)) % 65536, (x[2] + y[2]) % 65536 >>

Rotr[x \in Word, n \in 0..31] ==
    LET a == IF n >= 16 THEN x[2] ELSE x[1]
        b == IF n >= 16 THEN x[1] ELSE x[2]
        m == n % 16
    IN  IF m = 0 THEN << a, b >>
        ELSE << (a \div (2 ^ m)) + (b % (2 ^ m)) * (2 ^ (16 - m)),
                (b \div (2 ^ m)) + (a % (2 ^ m)) * (2 ^ (16 - m)) >>

Shr[x \in Word, n \in 0..31] ==
    IF n >= 16 THEN << 0, x[1] \div (2 ^ (n - 16)) >>
    ELSE << x[1] \div (2 ^ n), (x[2] \div (2 ^ n)) + (x[1] % (2 ^ n)) * (2 ^ (16 - n)) >>

BigSigma0[x \in Word] == WXor[WXor[Rotr[x, 2], Rotr[x, 13]], Rotr[x, 22]]
BigSigma1[x \in Word] == WXor[WXor[Rotr[x, 6], Rotr[x, 11]], Rotr[x, 25]]
SmallSigma0[x \in Word] == WXor[WXor[Rotr[x, 7], Rotr[x, 18]], Shr[x, 3]]
SmallSigma1[x \in Word] == WXor[WXor[Rotr[x, 17], Rotr[x, 19]], Shr[x, 10]]
\* (x AND y) XOR (NOT x AND z)
Ch[x \in Word, y \in Word, z \in Word] == WXor[z, WAnd[x, WXor[y, z]]]
\* (x AND y) XOR (x AND z) XOR (y AND z)
Maj[x \in Word, y \in Word, z \in Word] == WXor[WAnd[x, y], WAnd[z, WXor[x, y]]]

\* round constants
ShaK ==
    <<<<17034, 12184>>, <<28983, 17553>>, <<46528, 64463>>, <<59829, 56229>>,
       <<14678, 49755>>, <<23025, 4593>>, <<37439, 33444>>, <<43804, 24277>>,
       <<55303, 43672>>, <<4739, 23297>>, <<9265, 34238>>, <<21772, 32195>>,
       <<29374, 23924>>, <<32990, 45566>>, <<39900, 1703>>, <<49563, 61812>>,
       <<58523, 27073>>, <<61374, 18310>>, <<4033, 40390>>, <<9228, 41420>>,
       <<11753, 11375>>, <<19060, 33962>>, <<23728, 43484>>, <<30457, 35034>>,
       <<38974, 20818>>, <<43057, 50797>>, <<45059, 10184>>, <<48985, 32711>>,
       <<50912, 3059>>, <<54695, 37191>>, <<1738, 25425>>, <<5161, 10599>>,
       <<10167, 2693>>, <<11803, 8504>>, <<19756, 28156>>, <<21304, 3347>>,
       <<25866, 29524>>, <<30314, 2747>>, <<33218, 51502>>, <<37490, 11397>>,
       <<41663, 59553>>, <<43034, 26187>>, <<49739, 35696>>, <<51052, 20899>>,
       <<53650, 59417>>, <<54937, 1572>>, <<62478, 13701>>, <<4202, 41072>>,
       <<6564, 49430>>, <<7735, 27656>>, <<10056, 30540>>, <<13488, 48309>>,
       <<14620, 3251>>, <<20184, 43594>>, <<23452, 51791>>, <<26670, 28659>>,
       <<29839, 33518>>, <<30885, 25455>>, <<33992, 30740>>, <<36039, 520>>,
       <<37054, 65530>>, <<42064, 27883>>, <<48889, 41975>>, <<50801, 30962>> >>

\* initial hash value
ShaH0 ==
    <<<<27145, 58983>>, <<47975, 44677>>, <<15470, 62322>>, <<42319, 62778>>,
       <<20750, 21119>>, <<39685, 26764>>, <<8067, 55723>>, <<23520, 52505>> >>

Byte == 0..255

\* padding: 0x80, zero bytes up to 56 mod 64, then the bit length on 8 bytes
Pad[msg \in Seq(Byte)] ==
    msg \o << 128 >> \o [ i \in 1..((119 - (Len(msg) % 64)) % 64) |-> 0 ] \o << 0, 0, 0, 0 >>
    \o << (Len(msg) * 8) \div 16777216, ((Len(msg) * 8) \div 65536) % 256,
          ((Len(msg) * 8) \div 256) % 256, (Len(msg) * 8) % 256 >>

\* the 16 message words of the 64-byte block that starts after byte `off`
BlockWords[p \in Seq(Byte), off \in Nat] ==
    [ i \in 1..16 |-> << p[off + 4 * i - 3] * 256 + p[off + 4 * i - 2],
                         p[off + 4 * i - 1] * 256 + p[off + 4 * i] >> ]

\* the message schedule: words 17..64 appended to the 16 words of the block
Extend[W \in Seq(Word), t \in 17..64] ==
    Append(W, WAdd[WAdd[SmallSigma1[W[t - 2]], W[t - 7]],
                   WAdd[SmallSigma0[W[t - 15]], W[t - 16]]])

Schedule[W16 \in Seq(Word)] ==
    LET S[t \in 16..64] == IF t = 16 THEN W16 ELSE Extend[S[t - 1], t]
    IN  S[64]

\* one round on the working variables s = << a, b, c, d, e, f, g, h >>
Shift[s \in Seq(Word), t1 \in Word, t2 \in Word] ==
    << WAdd[t1, t2], s[1], s[2], s[3], WAdd[s[4], t1], s[5], s[6], s[7] >>

Round[s \in Seq(Word), w \in Word, k \in Word] ==
    Shift[s, WAdd[WAdd[WAdd[s[8], BigSigma1[s[5]]], WAdd[Ch[s[5], s[6], s[7]], k]], w],
             WAdd[BigSigma0[s[1]], Maj[s[1], s[2], s[3]]]]

Rounds[h \in Seq(Word), W \in Seq(Word)] ==
    LET R[t \in 0..64] == IF t = 0 THEN h ELSE Round[R[t - 1], W[t], ShaK[t]]
    IN  R[64]

Final[h \in Seq(Word), s \in Seq(Word)] == [ i \in 1..8 |-> WAdd[h[i], s[i]] ]

Compress[h \in Seq(Word), W16 \in Seq(Word)] == Final[h, Rounds[h, Schedule[W16]]]

\* the compression function over the blocks of the padded message p
Blocks[h \in Seq(Word), p \in Seq(Byte), off \in Nat] ==
    IF off >= Len(p) THEN h ELSE Blocks[Compress[h, BlockWords[p, off]], p, off + 64]

HexChars == << "0", "1", "2", "3", "4", "5", "6", "7", "8", "9", "a", "b", "c", "d", "e", "f" >>

Hex4[v \in UInt16] ==
    << HexChars[(v \div 4096) + 1], HexChars[((v \div 256) % 16) + 1],
       HexChars[((v \div 16) % 16) + 1], HexChars[(v % 16) + 1] >>

\* sha.hexdigest() of the eight state words
HexDigest[h \in Seq(Word)] ==
    Hex4[h[1][1]] \o Hex4[h[1][2]] \o Hex4[h[2][1]] \o Hex4[h[2][2]] \o
    Hex4[h[3][1]] \o Hex4[h[3][2]] \o Hex4[h[4][1]] \o Hex4[h[4][2]] \o
    Hex4[h[5][1]] \o Hex4[h[5][2]] \o Hex4[h[6][1]] \o Hex4[h[6][2]] \o
    Hex4[h[7][1]] \o Hex4[h[7][2]] \o Hex4[h[8][1]] \o Hex4[h[8][2]]

\* hashlib.sha256 of the bytes, as hexdigest() returns it
Sha256Hex[bytes \in Seq(Byte)] == HexDigest[Blocks[ShaH0, Pad[bytes], 0]]

(***************************************************************************)
(* Python values: float(), repr() and str()                                *)
(***************************************************************************)
\* A character beyond U+00FF, which a TLA+ string cannot hold, is spelled
\* "U+" and the hexadecimal digits of its code point, four of them or more:
\* chr(1635), ARABIC-INDIC DIGIT THREE, is "U+0663".
UpperHex ==
    << "0", "1", "2", "3", "4", "5", "6", "7", "8", "9", "A", "B", "C", "D", "E", "F" >>

RECURSIVE HexStr(_, _)
HexStr(n, width) ==
    IF n = 0 /\ width <= 0 THEN ""
    ELSE HexStr(n \div 16, width - 1) \o UpperHex[(n % 16) + 1]

Wide(n) == "U+" \o HexStr(n, 4)

\* code point of the digit zero of every run of ten decimal digits beyond
\* ASCII (Unicode category Nd), from ARABIC-INDIC DIGIT ZERO on
DecimalZeros ==
    { 1632, 1776, 1984, 2406, 2534, 2662, 2790, 2918, 3046, 3174, 3302, 3430, 3558,
      3664, 3792, 3872, 4160, 4240, 6112, 6160, 6470, 6608, 6784, 6800, 6992, 7088,
      7232, 7248, 42528, 43216, 43264, 43472, 43504, 43600, 44016, 65296, 66720,
      68912, 69734, 69872, 69942, 70096, 70384, 70736, 70864, 71248, 71360, 71472,
      71904, 72016, 72784, 73040, 73120, 92768, 92864, 93008, 120782, 120792,
      120802, 120812, 120822, 123200, 123632, 125264, 130032 }

\* the decimal digits beyond ASCII, each with its value: float() reads such
\* a digit as the ASCII digit of the same value
UnicodeDecimals == { << Wide(z + d), d >> : z \in DecimalZeros, d \in 0..9 }

IsDigit(c) ==
    \/ \E i \in 1..Len(Digits) : Digits[i] = c
    \/ \E p \in UnicodeDecimals : p[1] = c

DigitVal(c) ==
    IF \E i \in 1..Len(Digits) : Digits[i] = c
    THEN (CHOOSE i \in 1..Len(Digits) : Digits[i] = c) - 1
    ELSE (CHOOSE p \in UnicodeDecimals : p[1] = c)[2]

\* whitespace beyond ASCII (str.isspace): chr(133) and chr(160), written as
\* they are, and the spaces and separators from U+1680 to U+3000
UnicodeSpaces ==
    { "", " " }
    \cup { Wide(n) : n \in { 5760, 8232, 8233, 8239, 8287, 12288 } \cup 8192..8202 }

\* the whitespace float() drops at both ends of its argument: space, "\t",
\* "\n", chr(11) written as it is, "\f" and "\r", and the whitespace beyond
\* ASCII
Blanks == { " ", "\t", "\n", "", "\f", "\r" } \cup UnicodeSpaces

RECURSIVE LStrip(_)
LStrip(s) == IF s # << >> /\ Head(s) \in Blanks THEN LStrip(Tail(s)) ELSE s

RECURSIVE RStrip(_)
RStrip(s) == IF s # << >> /\ s[Len(s)] \in Blanks THEN RStrip(SubSeq(s, 1, Len(s) - 1)) ELSE s

Unsigned(s) == IF s # << >> /\ Head(s) \in { "+", "-" } THEN Tail(s) ELSE s

\* str.lower() of one ASCII character
Lower(c) ==
    IF \E i \in 34..59 : AsciiChars[i] = c
    THEN AsciiChars[(CHOOSE i \in 34..59 : AsciiChars[i] = c) + 32]
    ELSE c

LowerStr(s) == [ i \in 1..Len(s) |-> Lower(s[i]) ]

\* position of the first c in s, or Len(s) + 1
FirstAt(s, c) ==
    IF \E i \in 1..Len(s) : s[i] = c
    THEN CHOOSE i \in 1..Len(s) : s[i] = c /\ \A j \in 1..(i - 1) : s[j] # c
    ELSE Len(s) + 1

\* digits, with single underscores allowed between two digits
IsDigitPart(s) ==
    /\ s # << >>
    /\ \A i \in 1..Len(s) :
        \/ IsDigit(s[i])
        \/ s[i] = "_" /\ i > 1 /\ i < Len(s) /\ IsDigit(s[i - 1]) /\ IsDigit(s[i + 1])

NoUnderscores(s) == SelectSeq(s, LAMBDA c : c # "_")

\* the digits of s from its first digit that is not a zero
RECURSIVE LStripZeros(_)
LStripZeros(s) == IF s # << >> /\ DigitVal(Head(s)) = 0 THEN LStripZeros(Tail(s)) ELSE s

Inf == << "i", "n", "f" >>
Infinity == << "i", "n", "f", "i", "n", "i", "t", "y" >>
Nan == << "n", "a", "n" >>

\* the parts of a float literal: [sign] then inf, infinity or nan in any
\* case, or [digitpart] [. [digitpart]] [(e | E) [sign] digitpart]
FloatParts(text) ==
    LET body == Unsigned(RStrip(LStrip(text)))
        e == FirstAt(LowerStr(body), "e")
        mant == SubSeq(body, 1, e - 1)
        p == FirstAt(mant, ".")
    IN  [ neg |-> LStrip(text) # << >> /\ Head(LStrip(text)) = "-",
          word |-> LowerStr(body),
          ip |-> SubSeq(mant, 1, p - 1),
          fp |-> SubSeq(mant, p + 1, Len(mant)),
          hasExp |-> e <= Len(body),
          expNeg |-> e < Len(body) /\ body[e + 1] = "-",
          expDigits |-> Unsigned(SubSeq(body, e + 1, Len(body))) ]

\* the most digits, leading zeros apart, and the most digits after the point
\* the conversion takes, and the exponent it takes any larger one for
MaxDigits == 1000000000
MaxAbsExp == 1100000000

\* float(text) succeeds
ParseOk(text) ==
    LET f == FloatParts(text)
    IN  \/ f.word \in { Inf, Infinity, Nan }
        \/ /\ f.ip = << >> \/ IsDigitPart(f.ip)
           /\ f.fp = << >> \/ IsDigitPart(f.fp)
           /\ f.ip # << >> \/ f.fp # << >>
           /\ f.hasExp => IsDigitPart(f.expDigits)
           /\ Len(NoUnderscores(f.fp)) <= MaxDigits
           /\ Len(NoUnderscores(f.ip)) + Len(NoUnderscores(f.fp)) > MaxDigits =>
                Len(LStripZeros(NoUnderscores(f.ip) \o NoUnderscores(f.fp))) <= MaxDigits

(***************************************************************************)
(* Natural numbers of any size, as their decimal digits, most significant  *)
(* first and without leading zeros (0 is << >>): the arithmetic behind the *)
(* correctly rounded conversions between decimal text and binary64         *)
(***************************************************************************)
Big == Seq(0..9)

Zeros(n) == [ i \in 1..n |-> 0 ]

Trim[a \in Big] ==
    IF \A i \in 1..Len(a) : a[i] = 0 THEN << >>
    ELSE SubSeq(a, CHOOSE i \in 1..Len(a) : a[i] # 0 /\ \A j \in 1..(i - 1) : a[j] = 0, Len(a))

\* drop the trailing zeros
Chop[a \in Big] ==
    IF \A i \in 1..Len(a) : a[i] = 0 THEN << >>
    ELSE SubSeq(a, 1, CHOOSE i \in 1..Len(a) : a[i] # 0 /\ \A j \in (i + 1)..Len(a) : a[j] = 0)

\* 2 * a
BigDouble[a \in Big] ==
    Trim[[ i \in 1..(Len(a) + 1) |->
            ((2 * (IF i = 1 THEN 0 ELSE a[i - 1])) % 10)
            + (IF i <= Len(a) /\ a[i] >= 5 THEN 1 ELSE 0) ]]

\* a \div 2
BigHalf[a \in Big] ==
    Trim[[ i \in 1..Len(a) |-> (a[i] + (IF i > 1 /\ a[i - 1] % 2 = 1 THEN 10 ELSE 0)) \div 2 ]]

\* a < b
BigLess[a \in Big, b \in Big] ==
    IF Len(a) # Len(b) THEN Len(a) < Len(b)
    ELSE \E i \in 1..Len(a) : a[i] < b[i] /\ \A j \in 1..(i - 1) : a[j] = b[j]

\* a < b for digit strings of one length
LexLess[a \in Big, b \in Big] ==
    \E i \in 1..Len(a) : a[i] < b[i] /\ \A j \in 1..(i - 1) : a[j] = b[j]

\* the digits of a - b - borrow for digit strings of one length, the upper
\* half borrowing when the lower half of a is too small
SubAligned[a \in Big, b \in Big, borrow \in 0..1] ==
    IF Len(a) = 0 THEN << >>
    ELSE IF Len(a) = 1 THEN << (10 + a[1] - b[1] - borrow) % 10 >>
    ELSE SubAligned[SubSeq(a, 1, Len(a) \div 2), SubSeq(b, 1, Len(a) \div 2),
                    IF \/ LexLess[SubSeq(a, (Len(a) \div 2) + 1, Len(a)),
                                  SubSeq(b, (Len(a) \div 2) + 1, Len(a))]
                       \/ /\ borrow = 1
                          /\ SubSeq(a, (Len(a) \div 2) + 1, Len(a))
                                = SubSeq(b, (Len(a) \div 2) + 1, Len(a))
                    THEN 1 ELSE 0]
         \o SubAligned[SubSeq(a, (Len(a) \div 2) + 1, Len(a)),
                       SubSeq(b, (Len(a) \div 2) + 1, Len(a)), borrow]

\* a - b for a >= b
BigSub[a \in Big, b \in Big] == Trim[SubAligned[a, Zeros(Len(a) - Len(b)) \o b, 0]]

\* a + 1
BigInc[a \in Big] ==
    IF \A i \in 1..Len(a) : a[i] = 9 THEN << 1 >> \o Zeros(Len(a))
    ELSE [ i \in 1..Len(a) |->
            IF \A j \in (i + 1)..Len(a) : a[j] = 9 THEN (a[i] + 1) % 10 ELSE a[i] ]

\* a * 2^n and a * 5^n, the exponent halved to keep the nesting shallow
TimesPow2[a \in Big, n \in Nat] ==
    IF n = 0 THEN a
    ELSE IF n = 1 THEN BigDouble[a]
    ELSE TimesPow2[TimesPow2[a, n \div 2], n - (n \div 2)]

TimesPow5[a \in Big, n \in Nat] ==
    IF n = 0 THEN a
    ELSE IF n = 1 THEN BigHalf[a \o << 0 >>]
    ELSE TimesPow5[TimesPow5[a, n \div 2], n - (n \div 2)]

(***************************************************************************)
(* binary64: a positive finite double is bits * 2^q, bits its significand  *)
(* from the leading 1 on (53 bits, fewer for a subnormal), q >= -1074      *)
(***************************************************************************)
Bits == Seq(0..1)

Double == [ bits : Bits, q : Int, inf : BOOLEAN ]

DoubleZero == [ bits |-> << >>, q |-> 0, inf |-> FALSE ]
DoubleInf == [ bits |-> << >>, q |-> 0, inf |-> TRUE ]

\* a / b = a' / b' * 2^e with b' <= a' < 2 b'
ScaleNear[a \in Big, b \in Big, e \in Int] ==
    IF BigLess[a, b] THEN ScaleNear[BigDouble[a], b, e - 1]
    ELSE IF ~BigLess[a, BigDouble[b]] THEN ScaleNear[a, BigDouble[b], e + 1]
    ELSE [ a |-> a, b |-> b, e |-> e ]

\* the same in strides of 2^32 while the two are far apart
Scale[a \in Big, b \in Big, e \in Int] ==
    IF Len(a) + 10 < Len(b) THEN Scale[TimesPow2[a, 32], b, e - 32]
    ELSE IF Len(b) + 10 < Len(a) THEN Scale[a, TimesPow2[b, 32], e + 32]
    ELSE ScaleNear[a, b, e]

\* n more bits of the quotient by long division, r < b the remainder so far
DivBits[r \in Big, b \in Big, n \in Nat, acc \in Bits] ==
    IF n = 0 THEN [ bits |-> acc, rem |-> r ]
    ELSE IF BigLess[BigDouble[r], b] THEN DivBits[BigDouble[r], b, n - 1, Append(acc, 0)]
    ELSE DivBits[BigSub[BigDouble[r], b], b, n - 1, Append(acc, 1)]

\* bits + 1
BitsInc[s \in Bits] ==
    IF \A i \in 1..Len(s) : s[i] = 1 THEN << 1 >> \o [ i \in 1..Len(s) |-> 0 ]
    ELSE [ i \in 1..Len(s) |->
            IF \A j \in (i + 1)..Len(s) : s[j] = 1 THEN 1 - s[i] ELSE s[i] ]

\* what DivBits returns: quotient bits and remainder
Quotient == [ bits : Bits, rem : Big ]

\* round to nearest, ties to even, then renormalise and overflow to inf
RoundBits[d \in Quotient, b \in Big, q \in Int] ==
    LET up == \/ BigLess[b, BigDouble[d.rem]]
              \/ BigDouble[d.rem] = b /\ d.bits[Len(d.bits)] = 1
        s == IF up THEN BitsInc[d.bits] ELSE d.bits
    IN  IF Len(s) = 54
        THEN (IF q + 1 + 52 > 1023 THEN DoubleInf
              ELSE [ bits |-> SubSeq(s, 1, 53), q |-> q + 1, inf |-> FALSE ])
        ELSE IF Len(s) = 53 /\ q + 52 > 1023 THEN DoubleInf
        ELSE [ bits |-> s, q |-> q, inf |-> FALSE ]

\* what Scale returns: a / b in [1, 2) and the binary exponent e
Scaled == [ a : Big, b : Big, e : Int ]

\* the double nearest to (a / b) * 2^e: zero below the subnormals, fewer bits in them
FromScaled[s \in Scaled] ==
    IF s.e < -1075 THEN DoubleZero
    ELSE IF s.e = -1075
    THEN (IF s.a = s.b THEN DoubleZero ELSE [ bits |-> << 1 >>, q |-> -1074, inf |-> FALSE ])
    ELSE IF s.e >= -1022
    THEN RoundBits[DivBits[BigSub[s.a, s.b], s.b, 52, << 1 >>], s.b, s.e - 52]
    ELSE RoundBits[DivBits[BigSub[s.a, s.b], s.b, s.e + 1074, << 1 >>], s.b, -1074]

\* the double nearest to d * 10^k, d > 0
ToDouble[d \in Big, k \in Int] ==
    IF Len(d) + k > 310 THEN DoubleInf
    ELSE IF Len(d) + k < -330 THEN DoubleZero
    ELSE FromScaled[Scale[IF k > 0 THEN d \o Zeros(k) ELSE d,
                          IF k < 0 THEN << 1 >> \o Zeros(-k) ELSE << 1 >>, 0]]

\* the integer a bit string spells
BitsBig[s \in Bits] ==
    IF s = << >> THEN << >>
    ELSE IF s[Len(s)] = 0 THEN BigDouble[BitsBig[SubSeq(s, 1, Len(s) - 1)]]
    ELSE BigInc[BigDouble[BitsBig[SubSeq(s, 1, Len(s) - 1)]]]

\* a decimal number 0.digits * 10^exp, digits without leading or trailing zeros
Decimal == [ digits : Big, exp : Int ]

\* the exact decimal value of a positive finite double
ExactDecimal[x \in Double] ==
    IF x.q >= 0
    THEN [ digits |-> Chop[TimesPow2[BitsBig[x.bits], x.q]],
           exp |-> Len(TimesPow2[BitsBig[x.bits], x.q]) ]
    ELSE [ digits |-> Chop[TimesPow5[BitsBig[x.bits], -x.q]],
           exp |-> Len(TimesPow5[BitsBig[x.bits], -x.q]) + x.q ]

\* v cut to n digits, and the next n-digit number above that
CutDown[v \in Decimal, n \in Nat] ==
    [ digits |-> Chop[SubSeq(v.digits, 1, n)], exp |-> v.exp ]

CutUp[v \in Decimal, n \in Nat] ==
    IF \A i \in 1..n : v.digits[i] = 9
    THEN [ digits |-> << 1 >>, exp |-> v.exp + 1 ]
    ELSE [ digits |-> Chop[BigInc[SubSeq(v.digits, 1, n)]], exp |-> v.exp ]

\* v, of more than n digits, lies in the upper half between the two
UpperHalf[v \in Decimal, n \in Nat] ==
    \/ v.digits[n + 1] > 5
    \/ v.digits[n + 1] = 5 /\ Len(v.digits) > n + 1
    \/ v.digits[n + 1] = 5 /\ v.digits[n] % 2 = 1

DecimalToDouble[v \in Decimal] == ToDouble[v.digits, v.exp - Len(v.digits)]

\* the shortest decimal that converts back to x, the nearest to x first
Shortest[x \in Double, v \in Decimal, n \in Nat] ==
    IF Len(v.digits) <= n THEN v
    ELSE IF DecimalToDouble[IF UpperHalf[v, n] THEN CutUp[v, n] ELSE CutDown[v, n]] = x
    THEN (IF UpperHalf[v, n] THEN CutUp[v, n] ELSE CutDown[v, n])
    ELSE IF DecimalToDouble[IF UpperHalf[v, n] THEN CutDown[v, n] ELSE CutUp[v, n]] = x
    THEN (IF UpperHalf[v, n] THEN CutDown[v, n] ELSE CutUp[v, n])
    ELSE Shortest[x, v, n + 1]

(***************************************************************************)
(* float values: what repr shows of them, the shortest decimal that        *)
(* converts back to the double, or inf or nan                              *)
(***************************************************************************)
DigitChars(a) == [ i \in 1..Len(a) |-> Digits[a[i] + 1] ]

DigitVals(s) == [ i \in 1..Len(s) |-> DigitVal(s[i]) ]

Float(kind, neg, digits, exp) == [ kind |-> kind, neg |-> neg, digits |-> digits, exp |-> exp ]

\* the exponent read from its digits, leading zeros dropped: their value,
\* and MaxAbsExp for more than nine digits
SmallVal[a \in Big] ==
    IF a = << >> THEN 0
    ELSE IF Len(a) > 9 THEN MaxAbsExp
    ELSE SmallVal[SubSeq(a, 1, Len(a) - 1)] * 10 + a[Len(a)]

\* the float nearest to 0.digits * 10^exp: inf from 10^310 on and zero below
\* 10^-330; a decimal of at most 15 digits well inside the range converts to
\* a double and back unchanged, any other goes through the double
NearestFloat(neg, v) ==
    IF v.digits = << >> THEN Float("finite", neg, << >>, 0)
    ELSE IF v.exp > 310 THEN Float("inf", neg, << >>, 0)
    ELSE IF v.exp < -330 THEN Float("finite", neg, << >>, 0)
    ELSE IF Len(v.digits) <= 15 /\ v.exp >= -290 /\ v.exp <= 290
    THEN Float("finite", neg, DigitChars(v.digits), v.exp)
    ELSE IF DecimalToDouble[v].inf THEN Float("inf", neg, << >>, 0)
    ELSE IF DecimalToDouble[v].bits = << >> THEN Float("finite", neg, << >>, 0)
    ELSE Float("finite", neg,
               DigitChars(Shortest[DecimalToDouble[v], ExactDecimal[DecimalToDouble[v]], 1].digits),
               Shortest[DecimalToDouble[v], ExactDecimal[DecimalToDouble[v]], 1].exp)

\* float(text) for a text ParseOk accepts
ParseFloat(text) ==
    LET f == FloatParts(text)
        ip == Trim[DigitVals(NoUnderscores(f.ip))]
        fp == DigitVals(NoUnderscores(f.fp))
        e == SmallVal[Trim[DigitVals(NoUnderscores(f.expDigits))]]
        exp10 == IF ~f.hasExp THEN 0 ELSE IF f.expNeg THEN -e ELSE e
        all == Trim[ip \o fp]
    IN  IF f.word \in { Inf, Infinity } THEN Float("inf", f.neg, << >>, 0)
        ELSE IF f.word = Nan THEN Float("nan", FALSE, << >>, 0)
        ELSE NearestFloat(f.neg, [ digits |-> Chop[all], exp |-> Len(all) - Len(fp) + exp10 ])

\* str(n) of an int, with at least two digits as in an exponent
ExpStr(n) ==
    (IF n < 0 THEN << "-" >> ELSE << "+" >>)
    \o (IF n > -10 /\ n < 10 THEN << "0" >> ELSE << >>)
    \o IntStr(IF n < 0 THEN -n ELSE n)

\* repr(x) of a float: the shortest digits, in exponent form below 1e-4 and
\* from 1e16 on
FloatRepr(x) ==
    (IF x.neg THEN << "-" >> ELSE << >>) \o
    (IF x.kind = "inf" THEN Inf
     ELSE IF x.kind = "nan" THEN Nan
     ELSE IF x.digits = << >> THEN << "0", ".", "0" >>
     ELSE IF x.exp <= -4 \/ x.exp > 16
     THEN << x.digits[1] >>
          \o (IF Len(x.digits) > 1 THEN << "." >> \o Tail(x.digits) ELSE << >>)
          \o << "e" >> \o ExpStr(x.exp - 1)
     ELSE IF x.exp <= 0
     THEN << "0", "." >> \o [ i \in 1..(-x.exp) |-> "0" ] \o x.digits
     ELSE IF x.exp >= Len(x.digits)
     THEN x.digits \o [ i \in 1..(x.exp - Len(x.digits)) |-> "0" ] \o << ".", "0" >>
     ELSE SubSeq(x.digits, 1, x.exp) \o << "." >> \o SubSeq(x.digits, x.exp + 1, Len(x.digits)))

RECURSIVE Escaped(_, _)
Escaped(s, q) ==
    IF s = << >> THEN << >>
    ELSE (IF Head(s) = "\\" \/ Head(s) = q THEN << "\\", Head(s) >> ELSE << Head(s) >>)
         \o Escaped(Tail(s), q)

\* repr(s) of a str of printable ASCII
StrRepr(s) ==
    LET q == IF (\E i \in 1..Len(s) : s[i] = "'") /\ ~(\E i \in 1..Len(s) : s[i] = "\"")
             THEN "\"" ELSE "'"
    IN  << q >> \o Escaped(s, q) \o << q >>

(***************************************************************************)
(* Record and Block                                                        *)
(***************************************************************************)
Record(sender, receiver, amount) ==
    [ sender |-> sender, receiver |-> receiver, amount |-> amount ]

\* the bare str the genesis block carries in place of a Record
Genesis == [ text |-> << "G", "e", "n", "e", "s", "i", "s" >> ]

\* str(self.record): the dataclass repr of a Record, or the str itself
RecordStr(r) ==
    IF "text" \in DOMAIN r THEN r.text
    ELSE << "R", "e", "c", "o", "r", "d", "(", "s", "e", "n", "d", "e", "r", "=" >>
         \o StrRepr(r.sender)
         \o << ",", " ", "r", "e", "c", "e", "i", "v", "e", "r", "=" >>
         \o StrRepr(r.receiver)
         \o << ",", " ", "a", "m", "o", "u", "n", "t", "=" >>
         \o FloatRepr(r.amount) \o << ")" >>

\* Block(record, creator_id, prev_hash, timestamp, nonce)
Block(record, creator_id, prev_hash, timestamp, nonce) ==
    [ record |-> record, creator_id |-> creator_id, prev_hash |-> prev_hash,
      timestamp |-> timestamp, nonce |-> nonce ]

(***************************************************************************)
(* State                                                                   *)
(***************************************************************************)
VARIABLES
    chain,              \* pychain.chain: the blocks as they stand
    ident,              \* ident[i]: the object chain[i] refers to; two entries with the
                        \* same ident are one Block object
    difficulty,         \* pychain.difficulty
    default_timestamp,  \* default of Block.timestamp, set when the class is defined
    now,                \* UTC clock, seconds after midnight
    pc,                 \* where the program stands: "loading" in the first run of the script
                        \* after setup(), "idle" between runs and calls, "script" in a run
                        \* before the "Add Block" test, "mining" in the proof_of_work of the
                        \* handler's add_block, "returned" after the handler, "tail" after
                        \* the slider lines of a run without "Add Block",
                        \* "api_add_block" and "api_proof_of_work" in the proof_of_work of
                        \* a direct call; in a call of hash_block followed line by line,
                        \* the field fed to the hashlib object next, then "hexdigest"
    block,              \* proof_of_work's block as it stands during the search
    candidate_block,    \* the object the search was handed: its ident and the nonce it
                        \* came with
    calculated_hash,    \* proof_of_work's calculated_hash during the search
    result,             \* what the latest run or call has reported
    overwritten,        \* << >>, or what a direct user of the classes did: << i, field >>
                        \* assigned a field of chain[i], << i, "linked" or "unlinked" >>
                        \* handed a block of its own to add_block, << i, "same" >> handed
                        \* chain[i] to add_block, << i, "mined" >> handed chain[i] to
                        \* proof_of_work
    mined_at,           \* mined_at[i]: the difficulty at which proof_of_work returned chain[i],
                        \* 0 for a block that never went through it
    self,               \* hash_block's self while a call is followed line by line: the
                        \* position in the chain of the block it was called on, else 0
    sha,                \* the bytes fed to the hashlib object of that call, or of the
                        \* latest one
    digests             \* what the calls followed so far have returned: the block as it stood,
                        \* the digest, the difficulty of the ledger and the position

vars == << chain, ident, difficulty, default_timestamp, now, pc, block, candidate_block,
           calculated_hash, result, overwritten, mined_at, self, sha, digests >>

\* the state of a call of hash_block followed line by line
hashing == << self, sha, digests >>

NoBlock == [ none |-> TRUE ]
NoCandidate == [ id |-> 0, nonce |-> 0 ]

\* the program is inside the loop of proof_of_work
InSearch == pc \in { "mining", "api_add_block", "api_proof_of_work" }

\* the bytes fed to the digest with the last sha.update call left out
Preimage_NoNonce(b) ==
    RecordStr(b.record) \o IntStr(b.creator_id) \o b.timestamp \o b.prev_hash

\* the bytes fed to the digest, in the order of the sha.update calls
Preimage(b) ==
    RecordStr(b.record) \o IntStr(b.creator_id) \o b.timestamp \o b.prev_hash \o IntStr(b.nonce)

hash_block(b) == Sha256Hex[Encode[Preimage(b)]]

\* datetime.utcnow().strftime("%H:%M:%S"), t in seconds after midnight
TwoDigits(n) == << Digits[(n \div 10) + 1], Digits[(n % 10) + 1] >>

FormatTime(t) ==
    TwoDigits((t \div 3600) % 24) \o << ":" >> \o TwoDigits((t \div 60) % 60)
    \o << ":" >> \o TwoDigits(t % 60)

(***************************************************************************)
(* PyChain.is_valid                                                        *)
(***************************************************************************)
\* the loop over self.chain[1:], block_hash being the running previous hash
RECURSIVE ValidFrom(_, _, _)
ValidFrom(ch, i, block_hash) ==
    IF i > Len(ch) THEN TRUE
    ELSE IF block_hash # ch[i].prev_hash THEN FALSE
    ELSE ValidFrom(ch, i + 1, hash_block(ch[i]))

\* what self.chain[0] raises on an empty list
IndexError == "IndexError"

\* is_valid with the loop starting one block late
is_valid_SkipFirst(ch) ==
    IF ch = << >> THEN IndexError
    ELSE IF Len(ch) < 2 THEN TRUE
    ELSE ValidFrom(ch, 3, hash_block(ch[2]))

\* is_valid asking, besides the links, that every appended block's hash meets
\* the ledger's difficulty
is_valid_WithPow(ch) ==
    IF ch = << >> THEN IndexError
    ELSE /\ ValidFrom(ch, 2, hash_block(ch[1]))
         /\ \A i \in 2..Len(ch) : StartsWith[hash_block(ch[i]), Repeat("0", difficulty)]

\* is_valid with the loop ending one block early
is_valid_SkipLast(ch) ==
    IF ch = << >> THEN IndexError
    ELSE IF Len(ch) < 2 THEN TRUE
    ELSE ValidFrom(SubSeq(ch, 1, Len(ch) - 1), 2, hash_block(ch[1]))

\* is_valid asking, besides the links, that the first block carries the
\* prev_hash and nonce setup() gives the genesis block
is_valid_GenesisChecked(ch) ==
    IF ch = << >> THEN IndexError
    ELSE /\ ch[1].prev_hash = << "0" >>
         /\ ch[1].nonce = 0
         /\ ValidFrom(ch, 2, hash_block(ch[1]))

\* True or False, or the IndexError of self.chain[0] when the chain is empty
is_valid(ch) ==
    IF ch = << >> THEN IndexError ELSE ValidFrom(ch, 2, hash_block(ch[1]))

\* what a call of is_valid leaves to report
Verdict(ch) ==
    IF ch = << >> THEN is_valid(ch) ELSE IF is_valid(ch) THEN "valid" ELSE "invalid"
(***************************************************************************)
(* Inputs                                                                  *)
(***************************************************************************)
\* texts typed into the Sender and Receiver fields, both left empty, and
\* into the Amount field: a number in exponent form, 9e+33, the same number
\* typed with chr(11) before it, its exponent in the digits U+0663 and
\* U+FF13 and chr(160) after it, and two texts that are no number. With these the first search at the slider's default
\* and the searches at difficulty 1 end within MaxNonce on several chains
Senders == { << >> }
Receivers == { << >> }
AmountTexts ==
    { << "9", "e", "3", "3" >>, << "", "9", "e", "U+0663", "U+FF13", " " >>,
      << "x" >>, << >> }
\* positions of the "Block Difficulty" slider, out of its range 1..5, and
\* the position it shows until it is moved
SliderValues == { 1, 2 }
SliderDefault == 2
\* values a direct user writes into a block already in the chain
WrongHashes == { << "x" >> }
OtherAmounts == { ParseFloat(<< "1", "e", "-", "5" >>) }

\* PyChain.difficulty's default, and the creator_id the handler passes
DefaultDifficulty == 4
UiCreatorId == 42

(***************************************************************************)
(* Block objects                                                           *)
(***************************************************************************)
\* the chain after `nonce` is assigned on the object id: every entry that
\* refers to this object shows the new value
WithNonce(id, nonce) ==
    [ j \in 1..Len(chain) |->
        IF ident[j] = id THEN [ chain[j] EXCEPT !.nonce = nonce ] ELSE chain[j] ]

\* the chain after prev_hash, or record.amount, is assigned on chain[i]
WithPrevHash(i, value) ==
    [ j \in 1..Len(chain) |->
        IF ident[j] = ident[i] THEN [ chain[j] EXCEPT !.prev_hash = value ] ELSE chain[j] ]

WithAmount(i, value) ==
    [ j \in 1..Len(chain) |->
        IF ident[j] = ident[i] THEN [ chain[j] EXCEPT !.record.amount = value ] ELSE chain[j] ]

\* mined_at once proof_of_work has returned the object id at difficulty d
MinedAt(id, d) ==
    [ j \in 1..Len(chain) |-> IF ident[j] = id THEN d ELSE mined_at[j] ]

\* the ident of a Block object constructed now
NewIdent == Len(chain) + 1

(***************************************************************************)
(* The script: every interaction with the page runs it from top to bottom  *)
(***************************************************************************)
\* the first run at time 0 has defined the classes and called setup()
Init ==
    /\ now = 0
    /\ default_timestamp = FormatTime(0)
    /\ chain = << Block(Genesis, 0, << "0" >>, FormatTime(0), 0) >>
    /\ ident = << 1 >>
    /\ mined_at = << 0 >>
    /\ difficulty = DefaultDifficulty
    /\ pc = "loading"
    /\ block = NoBlock
    /\ candidate_block = NoCandidate
    /\ calculated_hash = << >>
    /\ result = "none"
    /\ overwritten = << >>
    /\ self = 0
    /\ sha = << >>
    /\ digests = { }

\* time passes between two runs, or between the class definitions of a run
\* and its handler
Tick ==
    /\ pc \in { "idle", "script" }
    /\ now < MaxClock
    /\ now' = now + 1
    /\ UNCHANGED << hashing, chain, ident, difficulty, default_timestamp, pc, block, candidate_block,
                    calculated_hash, result, overwritten, mined_at >>

\* a run of the script starts: what the previous run reported is gone, the
\* Block class is defined anew and its timestamp default is evaluated;
\* setup() returns the cached ledger
DefineClasses ==
    /\ pc \in { "idle", "tail" }
    /\ default_timestamp' = FormatTime(now)
    /\ pc' = "script"
    /\ result' = "none"
    /\ UNCHANGED << hashing, chain, ident, difficulty, now, block, candidate_block, calculated_hash,
                    overwritten, mined_at >>

\* AddBlock with the candidate linked to the hash of the chain's first block
\* instead of the tail's
AddBlock_StaleLink(sender, receiver, amount) ==
    /\ pc = "script"
    /\ Len(chain) < MaxChain
    /\ IF ~ParseOk(amount)
       THEN /\ result' = "ValueError"
            /\ pc' = "idle"
            /\ UNCHANGED << hashing, chain, ident, difficulty, default_timestamp, now, block,
                            candidate_block, calculated_hash, overwritten, mined_at >>
       ELSE \E new_block \in { Block(Record(sender, receiver, ParseFloat(amount)), UiCreatorId,
                                     hash_block(chain[1]), default_timestamp, 0) } :
                /\ block' = new_block
                /\ candidate_block' = [ id |-> NewIdent, nonce |-> new_block.nonce ]
                /\ calculated_hash' = hash_block(new_block)
                /\ pc' = "mining"
                /\ UNCHANGED << hashing, chain, ident, difficulty, default_timestamp, now, result,
                                overwritten, mined_at >>

\* AddBlock with a text that is no number taken as the amount 0.0
AddBlock_Coerce(sender, receiver, amount) ==
    /\ pc = "script"
    /\ Len(chain) < MaxChain
    /\ \E value \in { IF ParseOk(amount) THEN ParseFloat(amount) ELSE ParseFloat(<< "0" >>) } :
       \E prev_block_hash \in { hash_block(chain[Len(chain)]) } :
       \E new_block \in { Block(Record(sender, receiver, value), UiCreatorId,
                                prev_block_hash, default_timestamp, 0) } :
            /\ block' = new_block
            /\ candidate_block' = [ id |-> NewIdent, nonce |-> new_block.nonce ]
            /\ calculated_hash' = hash_block(new_block)
            /\ pc' = "mining"
            /\ result' = IF ParseOk(amount) THEN result ELSE "ValueError"
            /\ UNCHANGED << hashing, chain, ident, difficulty, default_timestamp, now, overwritten,
                            mined_at >>

\* "Add Block" pressed: float(amount), whose ValueError ends the run there,
\* before the slider lines; else the candidate block, a new object, then
\* add_block enters proof_of_work and computes the first hash
AddBlock(sender, receiver, amount) ==
    /\ pc = "script"
    /\ Len(chain) < MaxChain
    /\ IF ~ParseOk(amount)
       THEN /\ result' = "ValueError"
            /\ pc' = "idle"
            /\ UNCHANGED << hashing, chain, ident, difficulty, default_timestamp, now, block,
                            candidate_block, calculated_hash, overwritten, mined_at >>
       ELSE \E prev_block_hash \in { hash_block(chain[Len(chain)]) } :
            \E new_block \in { Block(Record(sender, receiver, ParseFloat(amount)), UiCreatorId,
                                     prev_block_hash, default_timestamp, 0) } :
                /\ block' = new_block
                /\ candidate_block' = [ id |-> NewIdent, nonce |-> new_block.nonce ]
                /\ calculated_hash' = hash_block(new_block)
                /\ pc' = "mining"
                /\ UNCHANGED << hashing, chain, ident, difficulty, default_timestamp, now, result,
                                overwritten, mined_at >>

\* PowStep incrementing the nonce of the chain's last block as well as the
\* candidate's
PowStep_OnTail ==
    /\ InSearch
    /\ ~StartsWith[calculated_hash, Repeat("0", difficulty)]
    /\ block.nonce < MaxNonce
    /\ block' = [ block EXCEPT !.nonce = @ + 1 ]
    /\ calculated_hash' = hash_block([ block EXCEPT !.nonce = @ + 1 ])
    /\ chain' = [ WithNonce(candidate_block.id, block.nonce + 1)
                    EXCEPT ![Len(chain)].nonce = @ + 1 ]
    /\ UNCHANGED << hashing, ident, difficulty, default_timestamp, now, pc, candidate_block, result,
                    overwritten, mined_at >>

\* one pass of the while loop of proof_of_work: the hash does not start with
\* the zeros, so the nonce of the block object is incremented, in the chain
\* too when the object is in it, and the hash recomputed
PowStep ==
    /\ InSearch
    /\ ~StartsWith[calculated_hash, Repeat("0", difficulty)]
    /\ block.nonce < MaxNonce
    /\ block' = [ block EXCEPT !.nonce = @ + 1 ]
    /\ calculated_hash' = hash_block([ block EXCEPT !.nonce = @ + 1 ])
    /\ chain' = WithNonce(candidate_block.id, block.nonce + 1)
    /\ UNCHANGED << hashing, ident, difficulty, default_timestamp, now, pc, candidate_block, result,
                    overwritten, mined_at >>

\* PowReturn leaving the loop whatever the hash is
PowReturn_AnyHash ==
    /\ pc \in { "mining", "api_add_block" }
    /\ chain' = Append(chain, block)
    /\ ident' = Append(ident, candidate_block.id)
    /\ mined_at' = Append(MinedAt(candidate_block.id, difficulty), difficulty)
    /\ pc' = IF pc = "mining" THEN "returned" ELSE "idle"
    /\ block' = NoBlock
    /\ candidate_block' = NoCandidate
    /\ calculated_hash' = << >>
    /\ result' = "added"
    /\ UNCHANGED << hashing, difficulty, default_timestamp, now, overwritten >>

\* PowReturn putting the mined block in the place of the tail
PowReturn_Replace ==
    /\ pc \in { "mining", "api_add_block" }
    /\ StartsWith[calculated_hash, Repeat("0", difficulty)]
    /\ chain' = [ chain EXCEPT ![Len(chain)] = block ]
    /\ ident' = [ ident EXCEPT ![Len(chain)] = candidate_block.id ]
    /\ mined_at' = [ mined_at EXCEPT ![Len(chain)] = difficulty ]
    /\ pc' = IF pc = "mining" THEN "returned" ELSE "idle"
    /\ block' = NoBlock
    /\ candidate_block' = NoCandidate
    /\ calculated_hash' = << >>
    /\ result' = "added"
    /\ UNCHANGED << hashing, difficulty, default_timestamp, now, overwritten >>

\* PowReturn refusing a block whose prev_hash is not the hash of the tail
PowReturn_LinkChecked ==
    /\ pc \in { "mining", "api_add_block" }
    /\ StartsWith[calculated_hash, Repeat("0", difficulty)]
    /\ IF block.prev_hash = hash_block(chain[Len(chain)])
       THEN /\ chain' = Append(chain, block)
            /\ ident' = Append(ident, candidate_block.id)
            /\ mined_at' = Append(MinedAt(candidate_block.id, difficulty), difficulty)
            /\ result' = "added"
       ELSE /\ result' = "refused"
            /\ UNCHANGED << hashing, chain, ident, mined_at >>
    /\ pc' = IF pc = "mining" THEN "returned" ELSE "idle"
    /\ block' = NoBlock
    /\ candidate_block' = NoCandidate
    /\ calculated_hash' = << >>
    /\ UNCHANGED << hashing, difficulty, default_timestamp, now, overwritten >>

\* the loop exits, proof_of_work returns the block object and add_block
\* appends it to the chain; the handler goes on to the slider lines, a direct
\* call is over
PowReturn ==
    /\ pc \in { "mining", "api_add_block" }
    /\ StartsWith[calculated_hash, Repeat("0", difficulty)]
    /\ chain' = Append(chain, block)
    /\ ident' = Append(ident, candidate_block.id)
    /\ mined_at' = Append(MinedAt(candidate_block.id, difficulty), difficulty)
    /\ pc' = IF pc = "mining" THEN "returned" ELSE "idle"
    /\ block' = NoBlock
    /\ candidate_block' = NoCandidate
    /\ calculated_hash' = << >>
    /\ result' = "added"
    /\ UNCHANGED << hashing, difficulty, default_timestamp, now, overwritten >>

\* SetDifficulty that also starts the nonces of the chain's blocks afresh
SetDifficulty_Remine(d) ==
    /\ pc \in { "loading", "script", "returned" }
    /\ pc = "loading" => d = SliderDefault
    /\ difficulty' = d
    /\ chain' = [ i \in 1..Len(chain) |-> [ chain[i] EXCEPT !.nonce = 0 ] ]
    /\ pc' = IF pc = "script" THEN "tail" ELSE "idle"
    /\ UNCHANGED << hashing, ident, default_timestamp, now, block, candidate_block, calculated_hash,
                    result, overwritten, mined_at >>

\* the slider lines, reached in every run that no exception has ended:
\* pychain.difficulty = the slider's position d, the default in the first
\* run, any position in a later one (a page open elsewhere has its own
\* slider). The first run ends here and so does a run with "Add Block"
\* pressed; a run without it goes on to the "Validate Chain" test
SetDifficulty(d) ==
    /\ pc \in { "loading", "script", "returned" }
    /\ pc = "loading" => d = SliderDefault
    /\ difficulty' = d
    /\ pc' = IF pc = "script" THEN "tail" ELSE "idle"
    /\ UNCHANGED << hashing, chain, ident, default_timestamp, now, block, candidate_block,
                    calculated_hash, result, overwritten, mined_at >>

\* ValidateChain that cuts the chain back to its genesis block when it finds
\* the chain invalid
ValidateChain_Repair ==
    /\ pc = "tail"
    /\ result' = Verdict(chain)
    /\ chain' = IF Verdict(chain) = "invalid" THEN << chain[1] >> ELSE chain
    /\ ident' = IF Verdict(chain) = "invalid" THEN << ident[1] >> ELSE ident
    /\ mined_at' = IF Verdict(chain) = "invalid" THEN << mined_at[1] >> ELSE mined_at
    /\ pc' = "idle"
    /\ UNCHANGED << hashing, difficulty, default_timestamp, now, block, candidate_block,
                    calculated_hash, overwritten >>

\* "Validate Chain" pressed: st.write(pychain.is_valid()), the last lines of
\* the script
ValidateChain ==
    /\ pc = "tail"
    /\ result' = Verdict(chain)
    /\ pc' = "idle"
    /\ UNCHANGED << hashing, chain, ident, difficulty, default_timestamp, now, block, candidate_block,
                    calculated_hash, overwritten, mined_at >>

(***************************************************************************)
(* The classes used directly, between two runs: Block and Record are plain *)
(* mutable dataclasses, chain a plain list, proof_of_work and add_block    *)
(* public methods. Each behaviour follows one such use.                    *)
(***************************************************************************)
\* chain[i].prev_hash = value, on a chain the page has just reported valid
OverwritePrevHash(i, value) ==
    /\ pc = "idle"
    /\ result = "valid"
    /\ overwritten = << >>
    /\ i \in 2..Len(chain)
    /\ value # chain[i].prev_hash
    /\ chain' = WithPrevHash(i, value)
    /\ overwritten' = << i, "prev_hash" >>
    /\ result' = "none"
    /\ UNCHANGED << hashing, ident, difficulty, default_timestamp, now, pc, block, candidate_block,
                    calculated_hash, mined_at >>

\* chain[i].record.amount = value, on a chain the page has just reported
\* valid
OverwriteAmount(i, value) ==
    /\ pc = "idle"
    /\ result = "valid"
    /\ overwritten = << >>
    /\ i \in 2..Len(chain)
    /\ value # chain[i].record.amount
    /\ chain' = WithAmount(i, value)
    /\ overwritten' = << i, "amount" >>
    /\ result' = "none"
    /\ UNCHANGED << hashing, ident, difficulty, default_timestamp, now, pc, block, candidate_block,
                    calculated_hash, mined_at >>

\* the record of the blocks a caller builds
PlainRecord == Record(<< "d" >>, << >>, ParseFloat(<< "8" >>))

\* b with prev_hash = prev.hash_block() as a careful caller sets it, or with
\* a str that is no hash
LinkTo(prev, b, linked) ==
    [ b EXCEPT !.prev_hash = IF linked THEN hash_block(prev) ELSE << "x" >> ]

PlainBlock == Block(PlainRecord, UiCreatorId, << "x" >>, FormatTime(0), 0)

\* blocks a caller builds: nonce not at 0, prev_hash no hash
CandidateNonces == { 2 }
UnlinkedCandidates == { [ PlainBlock EXCEPT !.nonce = n ] : n \in CandidateNonces }
\* what a caller hands to add_block or proof_of_work: << b, 0, linked >>, a
\* block b it has built, with prev_hash set to the hash of the tail when
\* linked, or << ch[i], i, FALSE >>, the block object at ch[i] itself
Arguments(ch) ==
    { << c, 0, linked >> :
        c \in UnlinkedCandidates, linked \in IF ch = << >> THEN { FALSE } ELSE BOOLEAN }
    \cup { << ch[i], i, FALSE >> : i \in 1..Len(ch) }

\* the block handed in, and the ident of that object
Argument(arg) == IF arg[3] THEN LinkTo(chain[Len(chain)], arg[1], TRUE) ELSE arg[1]
ArgumentIdent(arg) == IF arg[2] = 0 THEN NewIdent ELSE ident[arg[2]]

\* what overwritten records of an argument
Handed(arg, same) ==
    IF arg[2] # 0 THEN << arg[2], same >>
    ELSE << Len(chain) + 1, IF arg[3] THEN "linked" ELSE "unlinked" >>

\* add_block whose search starts from nonce 0 whatever the candidate's nonce
add_block_ResetNonce(arg) ==
    /\ pc = "idle"
    /\ overwritten = << >>
    /\ Len(chain) < MaxChain
    /\ arg[2] # 0 => arg[1] = chain[arg[2]]
    /\ \E b \in { [ Argument(arg) EXCEPT !.nonce = 0 ] } :
        /\ block' = b
        /\ calculated_hash' = hash_block(b)
    /\ candidate_block' = [ id |-> ArgumentIdent(arg), nonce |-> arg[1].nonce ]
    /\ chain' = WithNonce(ArgumentIdent(arg), 0)
    /\ pc' = "api_add_block"
    /\ overwritten' = Handed(arg, "same")
    /\ result' = "none"
    /\ UNCHANGED << hashing, ident, difficulty, default_timestamp, now, mined_at >>

\* pychain.add_block(candidate_block) called by a user of the class:
\* proof_of_work is entered with the object handed in and computes the first
\* hash
add_block(arg) ==
    /\ pc = "idle"
    /\ overwritten = << >>
    /\ Len(chain) < MaxChain
    /\ arg[2] # 0 => arg[1] = chain[arg[2]]
    /\ \E b \in { Argument(arg) } :
        /\ block' = b
        /\ calculated_hash' = hash_block(b)
    /\ candidate_block' = [ id |-> ArgumentIdent(arg), nonce |-> arg[1].nonce ]
    /\ pc' = "api_add_block"
    /\ overwritten' = Handed(arg, "same")
    /\ result' = "none"
    /\ UNCHANGED << hashing, chain, ident, difficulty, default_timestamp, now, mined_at >>

\* pychain.proof_of_work(block) called on its own
proof_of_work(arg) ==
    /\ pc = "idle"
    /\ overwritten = << >>
    /\ arg[2] # 0 => arg[1] = chain[arg[2]]
    /\ \E b \in { Argument(arg) } :
        /\ block' = b
        /\ calculated_hash' = hash_block(b)
    /\ candidate_block' = [ id |-> ArgumentIdent(arg), nonce |-> arg[1].nonce ]
    /\ pc' = "api_proof_of_work"
    /\ overwritten' = Handed(arg, "mined")
    /\ result' = "none"
    /\ UNCHANGED << hashing, chain, ident, difficulty, default_timestamp, now, mined_at >>

\* the loop of a proof_of_work called on its own exits: the block object is
\* returned, the chain is as the search left it
ProofOfWorkReturn ==
    /\ pc = "api_proof_of_work"
    /\ StartsWith[calculated_hash, Repeat("0", difficulty)]
    /\ mined_at' = MinedAt(candidate_block.id, difficulty)
    /\ pc' = "idle"
    /\ block' = NoBlock
    /\ candidate_block' = NoCandidate
    /\ calculated_hash' = << >>
    /\ result' = "mined"
    /\ UNCHANGED << hashing, chain, ident, difficulty, default_timestamp, now, overwritten >>

\* pychain.difficulty = d written by a user of the class
AssignDifficulty(d) ==
    /\ pc = "idle"
    /\ difficulty' = d
    /\ result' = "none"
    /\ UNCHANGED << hashing, chain, ident, default_timestamp, now, pc, block, candidate_block,
                    calculated_hash, overwritten, mined_at >>

\* pychain.is_valid() called by a user of the class; on an empty chain the
\* call raises and the ledger is as it was
IsValid ==
    /\ pc = "idle"
    /\ result' = Verdict(chain)
    /\ UNCHANGED << hashing, chain, ident, difficulty, default_timestamp, now, pc, block,
                    candidate_block, calculated_hash, overwritten, mined_at >>

Next ==
    \/ Tick
    \/ DefineClasses
    \/ \E s \in Senders, r \in Receivers, a \in AmountTexts : AddBlock(s, r, a)
    \/ PowStep
    \/ PowReturn
    \/ \E d \in SliderValues : SetDifficulty(d)
    \/ ValidateChain
    \/ \E i \in 2..MaxChain, v \in WrongHashes : OverwritePrevHash(i, v)
    \/ \E i \in 2..MaxChain, v \in OtherAmounts : OverwriteAmount(i, v)
    \/ \E c \in UnlinkedCandidates : add_block(<< c, 0, FALSE >>)

Spec == Init /\ [][Next]_vars

(***************************************************************************)
(* Ledgers a caller builds itself: PyChain(chain, difficulty)              *)
(***************************************************************************)
\* genesis blocks a caller constructs: record text, prev_hash and nonce vary
GenesisTexts == { Genesis.text, << "x" >> }
GenesisNonces == { 0, 7 }
Geneses ==
    { Block([ text |-> t ], 0, p, FormatTime(0), n) :
        t \in GenesisTexts, p \in { << "0" >> } \cup WrongHashes, n \in GenesisNonces }

\* the block setup() makes, and one with another prev_hash
SetupGenesis == Block(Genesis, 0, << "0" >>, FormatTime(0), 0)
OtherGenesis == Block(Genesis, 0, << "x" >>, FormatTime(0), 0)

\* blocks whose creator_id and timestamp differ, a digit moved from one to
\* the other
ShortIdBlock == Block(PlainRecord, 1, << "x" >>, << "2", "3" >>, 0)
LongIdBlock == Block(PlainRecord, 12, << "x" >>, << "3" >>, 0)

Chain3(b2, b3, first, second) ==
    << SetupGenesis,
       LinkTo(SetupGenesis, b2, first),
       LinkTo(LinkTo(SetupGenesis, b2, first), b3, second) >>

\* the empty chain, and chains of one to three blocks, each link kept or
\* broken
Ledgers ==
    { << >> }
    \cup { << g >> : g \in Geneses }
    \cup { << g, LinkTo(g, PlainBlock, linked) >> :
            g \in { SetupGenesis, OtherGenesis }, linked \in BOOLEAN }
    \cup { Chain3(PlainBlock, b3, first, second) :
            b3 \in { PlainBlock, ShortIdBlock }, first \in BOOLEAN, second \in BOOLEAN }
    \cup { Chain3(ShortIdBlock, LongIdBlock, FALSE, FALSE) }

\* difficulties a caller gives the ledger
ApiDifficulties == { 0, 1, 65 }

\* PyChain(chain, difficulty) built by the caller out of blocks of its own,
\* no call in progress
ApiInit ==
    /\ difficulty \in ApiDifficulties
    /\ chain \in Ledgers
    /\ ident = [ i \in 1..Len(chain) |-> i ]
    /\ mined_at = [ i \in 1..Len(chain) |-> 0 ]
    /\ now = 0
    /\ default_timestamp = FormatTime(0)
    /\ pc = "idle"
    /\ block = NoBlock
    /\ candidate_block = NoCandidate
    /\ calculated_hash = << >>
    /\ result = "none"
    /\ overwritten = << >>
    /\ self = 0
    /\ sha = << >>
    /\ digests = { }

ApiNext ==
    \/ \E arg \in Arguments(chain) : add_block(arg)
    \/ \E arg \in Arguments(chain) : proof_of_work(arg)
    \/ PowStep
    \/ PowReturn
    \/ ProofOfWorkReturn
    \/ \E d \in ApiDifficulties : AssignDifficulty(d)
    \/ IsValid

ApiSpec == ApiInit /\ [][ApiNext]_vars

(***************************************************************************)
(* Block.hash_block followed line by line, on the blocks of a ledger whose *)
(* difficulty is set at will between the calls                             *)
(***************************************************************************)
\* calls followed in one behaviour
MaxCalls == 2

\* a chain with two Block objects of the same five fields
HashLedger == << SetupGenesis, PlainBlock, PlainBlock >>

\* the fields in the order hash_block feeds them
HashFields == << "record", "creator_id", "timestamp", "prev_hash", "nonce" >>

\* str(self.<field>)
FieldText(b, field) ==
    CASE field = "record" -> RecordStr(b.record)
      [] field = "creator_id" -> IntStr(b.creator_id)
      [] field = "timestamp" -> b.timestamp
      [] field = "prev_hash" -> b.prev_hash
      [] field = "nonce" -> IntStr(b.nonce)

InHash == pc \in { HashFields[k] : k \in 1..Len(HashFields) } \cup { "hexdigest" }

HashInit ==
    /\ difficulty \in ApiDifficulties
    /\ chain = HashLedger
    /\ ident = [ i \in 1..Len(chain) |-> i ]
    /\ mined_at = [ i \in 1..Len(chain) |-> 0 ]
    /\ now = 0
    /\ default_timestamp = FormatTime(0)
    /\ pc = "idle"
    /\ block = NoBlock
    /\ candidate_block = NoCandidate
    /\ calculated_hash = << >>
    /\ result = "none"
    /\ overwritten = << >>
    /\ self = 0
    /\ sha = << >>
    /\ digests = { }

\* hash_block going on with the hashlib object of the call before
HashEnter_KeptSha(i) ==
    /\ pc = "idle"
    /\ Cardinality(digests) < MaxCalls
    /\ self' = i
    /\ sha' = sha
    /\ pc' = HashFields[1]
    /\ UNCHANGED << chain, ident, difficulty, default_timestamp, now, block, candidate_block,
                    calculated_hash, result, overwritten, mined_at, digests >>

\* chain[i].hash_block() is called: sha = hashlib.sha256(), an object that
\* has been fed nothing
HashEnter(i) ==
    /\ pc = "idle"
    /\ Cardinality(digests) < MaxCalls
    /\ self' = i
    /\ sha' = << >>
    /\ pc' = HashFields[1]
    /\ UNCHANGED << chain, ident, difficulty, default_timestamp, now, block, candidate_block,
                    calculated_hash, result, overwritten, mined_at, digests >>

\* sha.update(str(self.<field>).encode()) for the next field
HashUpdate ==
    /\ \E k \in 1..Len(HashFields) :
        /\ pc = HashFields[k]
        /\ sha' = sha \o Encode[FieldText(chain[self], HashFields[k])]
        /\ pc' = IF k < Len(HashFields) THEN HashFields[k + 1] ELSE "hexdigest"
    /\ UNCHANGED << chain, ident, difficulty, default_timestamp, now, block, candidate_block,
                    calculated_hash, result, overwritten, mined_at, self, digests >>

\* return sha.hexdigest()
HashReturn ==
    /\ pc = "hexdigest"
    /\ digests' = digests \cup { [ block |-> chain[self], digest |-> Sha256Hex[sha],
                                    difficulty |-> difficulty, at |-> self ] }
    /\ self' = 0
    /\ pc' = "idle"
    /\ UNCHANGED << chain, ident, difficulty, default_timestamp, now, block, candidate_block,
                    calculated_hash, result, overwritten, mined_at, sha >>

HashNext ==
    \/ \E i \in 1..Len(chain) : HashEnter(i)
    \/ HashUpdate
    \/ HashReturn
    \/ \E d \in ApiDifficulties : AssignDifficulty(d)

HashSpec == HashInit /\ [][HashNext]_vars

(***************************************************************************)
(* Properties                                                              *)
(***************************************************************************)
\* C1: when proof_of_work returns, the hash of the returned block, computed
\* over its final nonce, starts with `difficulty` characters "0": on every
\* step that leaves the search loop, the block add_block appends has such a
\* hash.
C1_ProofOfWorkSatisfied ==
    [][ (pc \in { "mining", "api_add_block" } /\ pc' \notin { "mining", "api_add_block" }) =>
            \E h \in { hash_block(chain'[Len(chain')]) } :
                /\ Len(h) >= difficulty
                /\ \A i \in 1..difficulty : h[i] = "0" ]_vars

\* a block has been appended after a search that had to move the nonce
C1_Witness ==
    /\ pc = "returned"
    /\ result = "added"
    /\ difficulty = 2
    /\ overwritten = << >>
    /\ chain[Len(chain)].nonce > 0

\* C2: on a chain built by the append operation alone, with the difficulty
\* set at will in between, is_valid returns true: whenever "Validate Chain"
\* reports on a ledger no field of which was assigned from outside, it
\* reports a valid chain.
C2_ValidationPositive ==
    (result \in { "valid", "invalid" } /\ overwritten = << >>) => result = "valid"

\* a chain of genesis and two mined blocks has been validated
C2_Witness ==
    /\ result = "valid"
    /\ overwritten = << >>
    /\ Len(chain) = 3
    /\ chain[2].nonce > 0
    /\ chain[3].nonce > 0

\* C3 as written: on a chain of genesis and one appended block, after the
\* amount of the appended block's record is changed, is_valid returns false.
C3_TailAmountDetected ==
    (result \in { "valid", "invalid" } /\ Len(chain) = 2 /\ overwritten = << 2, "amount" >>)
        => result = "invalid"

\* C3, amended: on a chain of genesis and one appended block, after the
\* amount of the appended block's record is changed, is_valid still returns
\* true: the loop compares the genesis hash with the block's prev_hash and
\* never hashes the last block.
C3_TailAmountUndetected ==
    (result \in { "valid", "invalid" } /\ Len(chain) = 2 /\ overwritten = << 2, "amount" >>)
        => result = "valid"

\* the two-block chain with the changed amount has been validated
C3_Witness ==
    /\ pc = "idle"
    /\ result = "valid"
    /\ Len(chain) = 2
    /\ overwritten = << 2, "amount" >>
    /\ chain[2].record.amount \in OtherAmounts

\* C4: once the prev_hash of a block other than genesis has been overwritten
\* with a str that is not the hash of the block before it, is_valid returns
\* false.
C4_BrokenLinkDetected ==
    (result \in { "valid", "invalid" } /\ overwritten # << >> /\ overwritten[2] = "prev_hash")
        => result = "invalid"

\* the link into the third block was broken, the first link is intact, and
\* validation reported the chain invalid
C4_Witness ==
    /\ result = "invalid"
    /\ Len(chain) = 3
    /\ overwritten = << 3, "prev_hash" >>
    /\ chain[3].prev_hash \in WrongHashes
    /\ chain[2].prev_hash \notin WrongHashes

\* C5: across every step of the append, set-difficulty and validate
\* operations the chain before the step is a prefix of the chain after it,
\* and the step that completes an append adds exactly the mined candidate
\* as the new last block; no other step changes the chain.
C5_AppendOnly ==
    [][ overwritten' = overwritten =>
            /\ Len(chain') >= Len(chain)
            /\ SubSeq(chain', 1, Len(chain)) = chain
            /\ IF pc \in { "mining", "api_add_block" } /\ pc' \notin { "mining", "api_add_block" }
               THEN chain' = Append(chain, block)
               ELSE chain' = chain ]_vars

\* a second append has completed
C5_Witness ==
    /\ pc = "returned"
    /\ result = "added"
    /\ Len(chain) = 3
    /\ overwritten = << >>

\* C6: "Add Block" with an amount text that is no float reports the
\* ValueError and ends the run: no proof-of-work is entered, and the chain,
\* the difficulty and the candidate are as before. A step that reports a
\* ValueError does so of whichever text.
C6_ParseErrorNoChange ==
    [][ /\ \A s \in Senders, r \in Receivers, a \in AmountTexts :
            (~ParseOk(a) /\ AddBlock(s, r, a)) =>
                /\ result' = "ValueError"
                /\ pc' = "idle"
                /\ chain' = chain
                /\ difficulty' = difficulty
                /\ block' = block
        /\ (result' = "ValueError" /\ result # "ValueError") =>
                /\ pc' = "idle"
                /\ chain' = chain
                /\ ident' = ident
                /\ difficulty' = difficulty
                /\ block' = block ]_vars

\* the error was reported on a ledger that already holds an appended block
C6_Witness ==
    /\ pc = "idle"
    /\ result = "ValueError"
    /\ Len(chain) >= 2
    /\ block = NoBlock

\* C7: a step that changes the difficulty changes nothing else of the ledger
\* and starts no search; no append, set-difficulty or validate step changes
\* the nonce of a block already in the chain; and the search of an append
\* ends on a hash that meets the difficulty the ledger holds at that moment.
C7_DifficultyOnlyFuture ==
    [][ /\ difficulty' # difficulty =>
                /\ difficulty' \in SliderValues
                /\ chain' = chain
                /\ ident' = ident
                /\ block' = block
                /\ pc' \in { "idle", "tail" }
        /\ overwritten' = overwritten =>
                \A i \in 1..Len(chain) : i <= Len(chain') /\ chain'[i].nonce = chain[i].nonce
        /\ (pc \in { "mining", "api_add_block" } /\ pc' \notin { "mining", "api_add_block" }) =>
                StartsWith[calculated_hash, Repeat("0", difficulty)] ]_vars

\* a block mined at difficulty 1 is in the chain with its nonce, and the
\* difficulty has been raised since
C7_Witness ==
    /\ pc = "idle"
    /\ difficulty = 2
    /\ Len(chain) >= 2
    /\ mined_at[2] = 1
    /\ chain[2].nonce > 0
    /\ overwritten = << >>

\* C8 as written: the search loop always stops, the difficulty being
\* satisfiable whatever its value; so whenever the loop runs, some digest,
\* at best the one of zeros only, starts with the target prefix.
C8_AlwaysSatisfiable ==
    InSearch => StartsWith[Repeat("0", Len(calculated_hash)), Repeat("0", difficulty)]

\* C8, amended: the loop stops only on a hash that starts with `difficulty`
\* characters "0"; when the difficulty is larger than the length of a digest
\* (64) no hash does, and every step of the search stays in the loop: the
\* call never returns.
C8_UnsatisfiableNeverStops ==
    [][ (InSearch /\ difficulty > Len(calculated_hash)) => pc' = pc ]_vars

\* the search runs at a difficulty longer than a digest and has moved the
\* nonce several times
C8_Witness ==
    /\ pc = "api_add_block"
    /\ difficulty > Len(calculated_hash)
    /\ Len(calculated_hash) = 64
    /\ block.nonce >= candidate_block.nonce + 3

\* C9: is_valid looks at the links only: a chain built by append, none of
\* whose appended blocks has a hash that meets the ledger's present
\* difficulty, is reported valid.
C9_LinkageOnly ==
    ( /\ result \in { "valid", "invalid" }
      /\ overwritten = << >>
      /\ Len(chain) >= 2
      /\ \A i \in 2..Len(chain) :
            ~StartsWith[hash_block(chain[i]), Repeat("0", difficulty)] )
        => result = "valid"

\* blocks were mined at difficulty 1, the slider was moved to 2, which the
\* hash of neither block meets, and the chain was reported valid
C9_Witness ==
    /\ pc = "idle"
    /\ result = "valid"
    /\ difficulty = 2
    /\ Len(chain) = 3
    /\ mined_at[2] = 1
    /\ mined_at[3] = 1
    /\ overwritten = << >>
    /\ \A i \in 2..3 : ~StartsWith[hash_block(chain[i]), Repeat("0", difficulty)]

\* C10: the step in which "Validate Chain" reports, valid or invalid, leaves
\* the difficulty and the chain, every field of every block included, as
\* they were.
C10_ValidateReadOnly ==
    [][ (pc = "tail" /\ result' \in { "valid", "invalid" }) =>
            /\ chain' = chain
            /\ ident' = ident
            /\ difficulty' = difficulty
            /\ block' = block
            /\ overwritten' = overwritten ]_vars

\* validation returned false on a chain whose middle block had its amount
\* changed, and the chain still has its three blocks
C10_Witness ==
    /\ pc = "idle"
    /\ result = "invalid"
    /\ Len(chain) = 3
    /\ overwritten = << 2, "amount" >>

\* C11: a ledger holding only its first block is reported valid, whatever
\* that block's record, prev_hash and nonce and whatever the difficulty.
C11_GenesisOnlyValid ==
    (Len(chain) = 1 /\ result \in { "valid", "invalid" }) => result = "valid"

C11_Witness ==
    /\ Len(chain) = 1
    /\ chain[1].prev_hash # << "0" >>
    /\ chain[1].nonce # 0
    /\ chain[1].record # Genesis
    /\ difficulty = 65
    /\ result = "valid"

\* C12: a block the handler builds without an explicit timestamp carries the
\* UTC time at which it is constructed.
C12_TimestampAtConstruction ==
    [][ (pc = "script" /\ pc' = "mining") => block'.timestamp = FormatTime(now) ]_vars

\* C13: hash_block is a function of the five fields and nothing else: two
\* calls on blocks that agree on record, creator_id, timestamp, prev_hash and
\* nonce return the same digest, whatever the difficulty of the ledger at
\* either call, wherever the blocks sit in the chain and whatever was hashed
\* before; the digest is the SHA-256 of the five texts in that order; and no
\* line of hash_block changes a block, the chain or the difficulty.
C13_HashDeterminism ==
    /\ [](\A p, q \in digests : p.block = q.block => p.digest = q.digest)
    /\ [][ /\ \A p \in digests' \ digests : p.digest = hash_block(p.block)
           /\ (InHash \/ InHash') =>
                /\ chain' = chain
                /\ ident' = ident
                /\ difficulty' = difficulty ]_vars

C13_Witness ==
    /\ pc = "idle"
    /\ \E p, q \in digests :
        /\ p.block = q.block
        /\ p.at # q.at
        /\ p.difficulty # q.difficulty

\* C14: the ledger setup() makes holds one block, with creator_id 0, the
\* default prev_hash and nonce 0, and the first block keeps exactly these
\* values through every append, difficulty change and validation.
C14_GenesisFixed ==
    /\ Len(chain) = 1
    /\ [](/\ chain[1].record = Genesis
          /\ chain[1].creator_id = 0
          /\ chain[1].prev_hash = << "0" >>
          /\ chain[1].timestamp = FormatTime(0)
          /\ chain[1].nonce = 0)

C14_Witness ==
    /\ Len(chain) = 3
    /\ chain[3].nonce > 0
    /\ difficulty = 2
    /\ result = "valid"
    /\ chain[1].nonce = 0

\* C15: proof_of_work scans the nonces upwards from the nonce its block
\* comes with: the search starts with the block as handed in, an object the
\* caller built or one that is in the chain, and entering changes no block; a
\* pass that stays in the loop adds exactly 1 to the nonce of that object and
\* leaves every other field and every other block alone; and the block
\* returned, which add_block appends, is that object with the least nonce,
\* not below the one it came with, whose hash starts with `difficulty`
\* characters "0"; at difficulty 0 that is the nonce it came with.
C15_LinearScan ==
    [][ /\ (pc = "idle" /\ pc' \in { "api_add_block", "api_proof_of_work" }) =>
            /\ chain' = chain
            /\ candidate_block'.nonce = block'.nonce
            /\ \/ /\ \A j \in 1..Len(chain) : ident[j] # candidate_block'.id
                  /\ block'.nonce \in CandidateNonces
                  /\ [ block' EXCEPT !.prev_hash = << "x" >> ] \in UnlinkedCandidates
               \/ \E j \in 1..Len(chain) : ident[j] = candidate_block'.id /\ chain[j] = block'
        /\ (InSearch /\ pc' = pc) =>
            /\ block' = [ block EXCEPT !.nonce = block.nonce + 1 ]
            /\ Len(chain') = Len(chain)
            /\ \A j \in 1..Len(chain) :
                chain'[j] = IF ident[j] = candidate_block.id THEN block' ELSE chain[j]
        /\ (InSearch /\ pc' = "idle") =>
            /\ chain' = IF pc = "api_proof_of_work" THEN chain ELSE Append(chain, block)
            /\ \A j \in 1..Len(chain) : ident[j] = candidate_block.id => chain[j] = block
            /\ block.nonce >= candidate_block.nonce
            /\ StartsWith[hash_block(block), Repeat("0", difficulty)]
            /\ \A n \in candidate_block.nonce..(block.nonce - 1) :
                ~StartsWith[hash_block([ block EXCEPT !.nonce = n ]), Repeat("0", difficulty)]
            /\ difficulty = 0 => block.nonce = candidate_block.nonce
      ]_vars

C15_Witness ==
    /\ result = "added"
    /\ difficulty = 1
    /\ overwritten # << >>
    /\ overwritten[2] = "linked"
    /\ chain[Len(chain)].nonce - 1 \in CandidateNonces
    /\ chain[Len(chain)].prev_hash \notin WrongHashes

\* C16: add_block admits a candidate whose prev_hash is not the hash of the
\* tail as it admits any other, the chain growing by that block, is_valid is
\* False right after, and every later validation reports the chain invalid,
\* whatever blocks were appended and whatever difficulty was set since.
C16_BrokenLinkAdmittedForGood ==
    /\ [][ (pc \in { "mining", "api_add_block" } /\ pc' \notin { "mining", "api_add_block" } /\ block.prev_hash \in WrongHashes) =>
                /\ chain' = Append(chain, block)
                /\ ~is_valid(chain') ]_vars
    /\ []((/\ overwritten # << >>
           /\ overwritten[2] = "unlinked"
           /\ result \in { "valid", "invalid" }
           /\ Len(chain) >= overwritten[1]) => result = "invalid")

C16_Witness ==
    /\ overwritten = << 2, "unlinked" >>
    /\ Len(chain) = 3
    /\ chain[2].prev_hash \in WrongHashes
    /\ difficulty = 2
    /\ result = "invalid"

\* C17: is_valid returns True exactly when every block after the first
\* carries as prev_hash the hash of the block before it, computed from that
\* block's fields as they stand; the answer is the same when the last block
\* is replaced by one with another record, creator_id, timestamp and nonce
\* and the same prev_hash.
C17_ExactlyLinkage ==
    result \in { "valid", "invalid" } =>
        /\ result = "valid" <=>
            \A i \in 2..Len(chain) : chain[i].prev_hash = hash_block(chain[i - 1])
        /\ result = "valid" <=>
            is_valid([ chain EXCEPT ![Len(chain)] =
                Block(Genesis, 7, chain[Len(chain)].prev_hash, << "9" >>,
                      chain[Len(chain)].nonce + 1) ])

C17_Witness ==
    /\ result = "invalid"
    /\ Len(chain) = 3
    /\ chain[2].prev_hash \notin WrongHashes
    /\ chain[3].prev_hash \in WrongHashes
    /\ chain[3].creator_id # UiCreatorId

\* C18: on a ledger grown by appends and difficulty changes alone, the hash
\* of every block after the first, computed from the block as it stands,
\* starts with as many characters "0" as the difficulty was when the search
\* for that block returned, whatever the difficulty is now and whatever was
\* appended since: the new ledger holds no such block, and every step that
\* changes a block, the chain or the difficulties recorded leaves a chain all
\* of whose blocks after the first have such a hash.
C18_ProofOfWorkKept ==
    /\ Len(chain) = 1
    /\ [][ ( /\ overwritten' = << >> \/ overwritten'[2] \in { "unlinked", "linked" }
             /\ chain' # chain \/ mined_at' # mined_at ) =>
                \A i \in 2..Len(chain') :
                    StartsWith[hash_block(chain'[i]), Repeat("0", mined_at'[i])] ]_vars

C18_Witness ==
    /\ Len(chain) = 3
    /\ mined_at[2] = 2
    /\ mined_at[3] = 1
    /\ difficulty = 2
    /\ overwritten = << >>
    /\ pc = "idle"

\* the blocks at hand in a state: those of the chain and the candidate of a
\* search in progress
BlocksAtHand == { chain[i] : i \in 1..Len(chain) } \cup (IF InSearch THEN { block } ELSE { })

SameWidths(a, b) ==
    /\ Len(IntStr(a.creator_id)) = Len(IntStr(b.creator_id))
    /\ Len(a.timestamp) = Len(b.timestamp)
    /\ Len(a.prev_hash) = Len(b.prev_hash)

\* C19: two blocks with the same record that differ in creator_id,
\* timestamp, prev_hash or nonce feed different byte strings to the digest.
C19_PreimageIdentifiesFields ==
    \A a \in BlocksAtHand, b \in BlocksAtHand :
        (a.record = b.record /\ a # b) => Preimage(a) # Preimage(b)

\* C19 as it holds: two blocks with the same record that differ in
\* creator_id, timestamp, prev_hash or nonce, and whose str(creator_id),
\* timestamp and prev_hash are pairwise of the same length, feed different
\* byte strings to the digest.
C19_PreimageIdentifiesFixedWidthFields ==
    \A a \in BlocksAtHand, b \in BlocksAtHand :
        (a.record = b.record /\ a # b /\ SameWidths(a, b)) => Preimage(a) # Preimage(b)

C19_Witness ==
    /\ Len(chain) = 3
    /\ chain[2].record = chain[3].record
    /\ SameWidths(chain[2], chain[3])
    /\ Len(chain[2].prev_hash) = 64
    /\ chain[2].prev_hash # chain[3].prev_hash
    /\ chain[2].nonce # chain[3].nonce
    /\ Preimage(chain[2]) # Preimage(chain[3])

====
